---- MODULE Spec2Model ----
(***************************************************************************)
(* KBKDF (NIST SP 800-108) as implemented by src/kbkdf/src/lib.rs: the     *)
(* provided method Kbkdf::derive and its three modes Counter, Feedback     *)
(* and DoublePipeline.                                                     *)
(*                                                                         *)
(* One behaviour fixes the inputs of derive (the sizes K, H, R, the        *)
(* switches, label and context) and lets a caller invoke derive once per   *)
(* entry of Calls, one call after the other (derive is synchronous).       *)
(* derive is cut into its steps: the size check, the computation of the    *)
(* initial pipeline value, one step per iteration of the round loop, and   *)
(* the final assertion and return.                                         *)
(*                                                                         *)
(* usize is as wide as the target's pointers and an overflowing usize     *)
(* operation panics or wraps as the build's overflow checks say: both are  *)
(* inputs (Builds).                                                        *)
(*                                                                         *)
(* Bytes are integers.  0..255 are the bytes the caller and the engine     *)
(* write (label, context, separator, counter and length fields, IV, the    *)
(* default contents of the output array).  The MAC is a collaborator of    *)
(* the crate (digest::Mac): it is modelled as a function from messages to  *)
(* H-byte blocks that is collision-free and nothing more.  Its output      *)
(* bytes are abstract values >= 256; `oracle` memoises the messages it     *)
(* was asked, so equal messages give equal blocks and different messages   *)
(* different blocks.  All MAC computations of a behaviour use the same     *)
(* key kin, so the key is not part of the table.                           *)
(***************************************************************************)
EXTENDS Integers, Sequences, FiniteSets

VARIABLES
    inp,      \* the type parameters and arguments of derive, fixed per behaviour
    call,     \* index in Calls of the call being executed
    pc,       \* position inside derive: "enter", "seed", "loop", "returned", "idle"
    n,        \* lib.rs:87   number of rounds
    output,   \* lib.rs:94   Array<u8, K::KeySize>
    filled,   \* lib.rs:95   K - builder.len(): bytes of output already written
    ki,       \* lib.rs:97   Option<Array<u8, Prf::OutputSize>>: <<>> is None, <<b>> is Some(b)
    a,        \* lib.rs:99   pipeline value
    counter,  \* lib.rs:109  loop variable
    rec,      \* recording MAC stub: the MAC computations of the current call, in order
    ret,      \* result of the current call: "none", "Ok", "Err" (InvalidRequestSize),
              \* "PanicOverflow" (arithmetic overflow), "PanicAssert" (the assert_eq! failed)
    oracle,   \* the MAC as a memoised function: the distinct messages asked so far
    results   \* what the caller keeps of the finished calls

vars == <<inp, call, pc, n, output, filled, ki, a, counter, rec, ret, oracle, results>>

----------------------------------------------------------------------------
(* Bounds of the model *)

MaxK == 5
MaxH == 2

(* Program constants *)

BitsPerByte == 8
SeparatorByte == 0

----------------------------------------------------------------------------
(* Sequence helpers *)

Take(s, k) == SubSeq(s, 1, k)

Min(x, y) == IF x <= y THEN x ELSE y

RECURSIVE Concat(_)
Concat(ss) == IF ss = <<>> THEN <<>> ELSE Head(ss) \o Concat(Tail(ss))

----------------------------------------------------------------------------
(* The inputs *)

\* sealed::R is implemented for the counter widths of 8, 16, 24 and 32 bits
RBits == {8, 16, 24, 32}

Labels == {<<>>, <<76>>}
Contexts == {<<>>, <<67>>}

\* the two collision-free MAC stubs, see PrfBlock
PrfKinds == {"distinctBytes", "distinctLastByte"}

\* the builds of the crate: the width of usize, and whether an overflow
\* panics (overflow-checks, the default of a debug build) or wraps.  With 64
\* bits no operation of derive overflows, so one such build stands for both.
Builds ==
    {[usize |-> 64, overflow_checks |-> TRUE],
     [usize |-> 32, overflow_checks |-> TRUE],
     [usize |-> 32, overflow_checks |-> FALSE]}

SmallInputs ==
    [K : 0..MaxK, H : 1..MaxH, R : RBits,
     use_l : BOOLEAN, use_separator : BOOLEAN, use_counter : BOOLEAN,
     label : Labels, context : Contexts, prf : PrfKinds, build : Builds]

\* requests at the capacity of the counter field: (K, R) with H = 1
BoundarySizes ==
    {<<255, 8>>, <<256, 8>>, <<256, 16>>, <<65536, 8>>, <<65536, 16>>,
     <<16777216, 16>>, <<16777216, 24>>}

BoundaryInputs ==
    {[K |-> s[1], H |-> 1, R |-> s[2],
      use_l |-> FALSE, use_separator |-> FALSE, use_counter |-> c,
      label |-> <<>>, context |-> <<>>, prf |-> "distinctBytes",
      build |-> [usize |-> 64, overflow_checks |-> TRUE]] :
        s \in BoundarySizes, c \in BOOLEAN}

Inputs == SmallInputs \cup BoundaryInputs

\* the IV a caller hands to Feedback::new: H bytes of its own
IvBytes(H) == [j \in 1..H |-> 73]

\* the calls the caller makes, in order.  altA marks a call whose pipeline
\* value takes another value than the one the MAC returned (see Perturb).
Calls ==
    << [mode |-> "Counter",        iv |-> FALSE, altA |-> FALSE],
       [mode |-> "Feedback",       iv |-> FALSE, altA |-> FALSE],
       [mode |-> "Feedback",       iv |-> TRUE,  altA |-> FALSE],
       [mode |-> "DoublePipeline", iv |-> FALSE, altA |-> FALSE],
       [mode |-> "Counter",        iv |-> FALSE, altA |-> TRUE],
       [mode |-> "Feedback",       iv |-> FALSE, altA |-> TRUE],
       [mode |-> "Feedback",       iv |-> TRUE,  altA |-> TRUE] >>

NCalls == Len(Calls)

Cur == Calls[call]

----------------------------------------------------------------------------
(* The MAC *)

\* the block the MAC returns for the id-th distinct message.  Both stubs are
\* collision-free; "distinctLastByte" is the one whose blocks differ in
\* their last byte only.
PrfBlock(kind, H, id) ==
    [j \in 1..H |->
        IF kind = "distinctLastByte" /\ j < H
        THEN 256 + (j - 1)
        ELSE 256 + (id - 1) * H + (j - 1)]

OracleKnows(tbl, m) == \E i \in 1..Len(tbl) : tbl[i] = m

OracleId(tbl, m) ==
    IF OracleKnows(tbl, m)
    THEN CHOOSE i \in 1..Len(tbl) : tbl[i] = m
    ELSE Len(tbl) + 1

OracleAfter(tbl, m) == IF OracleKnows(tbl, m) THEN tbl ELSE Append(tbl, m)

\* Prf::new_from_slice(kin), update(m), finalize().into_bytes()
Prf(tbl, m) == PrfBlock(inp.prf, inp.H, OracleId(tbl, m))

----------------------------------------------------------------------------
(* derive *)

\* KbkdfUser::L and KbkdfUser::H, in bits
LBits(K) == K * BitsPerByte
HBits(H) == H * BitsPerByte

\* u32::div_ceil: the quotient, plus one if there is a remainder
DivCeil(x, y) == IF x % y > 0 THEN x \div y + 1 ELSE x \div y

RoundCount(K, H) == DivCeil(LBits(K), HBits(H))

\* 2usize.pow(R::U32) does not fit usize
PowOverflows(R) == R >= inp.build.usize

InvalidRequestSizeOffByOne(m, R) ==
    LET e == IF PowOverflows(R) THEN inp.build.usize ELSE R IN
    IF e <= 16 THEN m > 2^e ELSE (m \div 65536) > 2^(e - 16)
\* n as usize > 2usize.pow(R::U32) - 1, where no overflow panics.  A pow that
\* overflows wraps to 0 and 0 - 1 wraps to 2^usize - 1: the bound is
\* 2^e - 1 with e = R, or e = usize after the wrap.  2^32 is not an integer
\* of the checker: for e > 16 both sides are divided by 2^16, which keeps
\* the comparison (m > 2^e - 1 iff m div 2^16 > 2^(e-16) - 1).
InvalidRequestSize(m, R) ==
    LET e == IF PowOverflows(R) THEN inp.build.usize ELSE R IN
    IF e <= 16 THEN m > 2^e - 1 ELSE (m \div 65536) > 2^(e - 16) - 1

\* u32::to_be_bytes
ToBeBytes(x) ==
    << (x \div 16777216) % 256, (x \div 65536) % 256, (x \div 256) % 256, x % 256 >>

CounterFieldHighBytes(c, R) == SubSeq(ToBeBytes(c), 1, R \div BitsPerByte)
\* &counter.to_be_bytes()[(4 - R::USIZE / 8)..]
CounterField(c, R) == SubSeq(ToBeBytes(c), (4 - R \div BitsPerByte) + 1, 4)

DOUBLE_PIPELINE_Always(mode) == TRUE
DOUBLE_PIPELINE(mode) == mode = "DoublePipeline"

FEEDBACK_KI_Never(mode) == FALSE
FEEDBACK_KI(mode) == mode = "Feedback"

\* input_iv: the default leaves ki alone, Feedback stores its IV if it has one
InputIv(c, H) ==
    IF c.mode = "Feedback" /\ c.iv THEN << IvBytes(H) >> ELSE <<>>

\* label, separator, context
FixedInput ==
    inp.label \o (IF inp.use_separator THEN <<SeparatorByte>> ELSE <<>>) \o inp.context

SeedMessageWithL ==
    FixedInput \o (IF inp.use_l THEN ToBeBytes(LBits(inp.K)) ELSE <<>>)
\* the message of the initial pipeline value
SeedMessage == FixedInput

\* the value the pipeline variable takes.  In a call with altA it is another
\* block than the MAC's (bytes below 0, which nothing else writes): the two
\* calls of a pair then differ in every value of a and in nothing else.
Perturb(block) ==
    IF Cur.altA THEN [j \in 1..Len(block) |-> -1 - block[j]] ELSE block

ChainsPipelineOnlyWhenUsed(c) == c > 1 /\ DOUBLE_PIPELINE(Cur.mode)
\* if counter > 1 { a = PRF(kin, a) }
ChainsPipeline(c) == c > 1

RoundMessageCounterAlways(kiv, av, c) ==
    (IF FEEDBACK_KI(Cur.mode) /\ kiv # <<>> THEN kiv[1] ELSE <<>>)
    \o (IF DOUBLE_PIPELINE(Cur.mode) THEN av ELSE <<>>)
    \o CounterField(c, inp.R)
    \o FixedInput
    \o (IF inp.use_l THEN ToBeBytes(LBits(inp.K)) ELSE <<>>)
\* the message of round c, given the feedback value and the pipeline value
RoundMessage(kiv, av, c) ==
    (IF FEEDBACK_KI(Cur.mode) /\ kiv # <<>> THEN kiv[1] ELSE <<>>)
    \o (IF DOUBLE_PIPELINE(Cur.mode) THEN av ELSE <<>>)
    \o (IF inp.use_counter THEN CounterField(c, inp.R) ELSE <<>>)
    \o FixedInput
    \o (IF inp.use_l THEN ToBeBytes(LBits(inp.K)) ELSE <<>>)

KiAfterRoundKept(kiv, buf) == kiv
\* ki = Some(buf.clone())
KiAfterRound(kiv, buf) == << buf >>

CopyFromTail(out, at, buf, remaining) ==
    [i \in 1..Len(out) |->
        IF at < i /\ i <= at + remaining
        THEN buf[Len(buf) - remaining + (i - at)]
        ELSE out[i]]
\* builder[..remaining].copy_from_slice(&buf[..remaining])
CopyFromSlice(out, at, buf, remaining) ==
    [i \in 1..Len(out) |->
        IF at < i /\ i <= at + remaining THEN buf[i - at] ELSE out[i]]

\* lib.rs:87-98
DeriveEnter ==
    /\ pc = "enter"
    /\ LET m == RoundCount(inp.K, inp.H) IN
        /\ n' = m
        /\ IF PowOverflows(inp.R) /\ inp.build.overflow_checks
           THEN /\ ret' = "PanicOverflow"
                /\ pc' = "returned"
                /\ UNCHANGED <<output, filled, ki>>
           ELSE IF InvalidRequestSize(m, inp.R)
           THEN /\ ret' = "Err"
                /\ pc' = "returned"
                /\ UNCHANGED <<output, filled, ki>>
           ELSE /\ output' = [i \in 1..inp.K |-> 0]
                /\ filled' = 0
                /\ ki' = InputIv(Cur, inp.H)
                /\ pc' = "seed"
                /\ ret' = ret
    /\ UNCHANGED <<inp, call, a, counter, rec, oracle, results>>

\* lib.rs:99-107
DeriveSeed ==
    /\ pc = "seed"
    /\ LET m == SeedMessage
           blk == Prf(oracle, m)
       IN /\ a' = Perturb(blk)
          /\ oracle' = OracleAfter(oracle, m)
          /\ rec' = Append(rec, [what |-> "A", counter |-> 1, msg |-> m, out |-> blk])
    /\ counter' = 1
    /\ pc' = "loop"
    /\ UNCHANGED <<inp, call, n, output, filled, ki, ret, results>>

\* lib.rs:109-159, one iteration
DeriveRound ==
    /\ pc = "loop"
    /\ counter <= n
    /\ LET chain == ChainsPipeline(counter)
           ablk == Prf(oracle, a)
           a1 == IF chain THEN Perturb(ablk) ELSE a
           tbl1 == IF chain THEN OracleAfter(oracle, a) ELSE oracle
           rec1 == IF chain
                   THEN Append(rec, [what |-> "A", counter |-> counter,
                                     msg |-> a, out |-> ablk])
                   ELSE rec
           m == RoundMessage(ki, a1, counter)
           buf == Prf(tbl1, m)
           remaining == Min(Len(buf), inp.K - filled)
       IN /\ a' = a1
          /\ oracle' = OracleAfter(tbl1, m)
          /\ rec' = Append(rec1, [what |-> "round", counter |-> counter,
                                  msg |-> m, out |-> buf])
          /\ ki' = KiAfterRound(ki, buf)
          /\ output' = CopyFromSlice(output, filled, buf, remaining)
          /\ filled' = filled + remaining
    /\ counter' = counter + 1
    /\ UNCHANGED <<inp, call, pc, n, ret, results>>

\* lib.rs:161-163
DeriveReturn ==
    /\ pc = "loop"
    /\ counter > n
    /\ ret' = IF inp.K - filled = 0 THEN "Ok" ELSE "PanicAssert"
    /\ pc' = "returned"
    /\ UNCHANGED <<inp, call, n, output, filled, ki, a, counter, rec, oracle, results>>

\* the caller keeps the result and makes its next call
CallerNext ==
    /\ pc = "returned"
    /\ results' = Append(results,
                         [ret |-> ret,
                          output |-> IF ret = "Ok" THEN output ELSE <<>>,
                          prfCalls |-> Len(rec),
                          aLast |-> a])
    /\ call' = IF call < NCalls THEN call + 1 ELSE call
    /\ pc' = IF call < NCalls THEN "enter" ELSE "idle"
    /\ n' = 0
    /\ output' = <<>>
    /\ filled' = 0
    /\ ki' = <<>>
    /\ a' = <<>>
    /\ counter' = 0
    /\ rec' = <<>>
    /\ ret' = "none"
    /\ UNCHANGED <<inp, oracle>>

Init ==
    /\ inp \in Inputs
    /\ call = 1
    /\ pc = "enter"
    /\ n = 0
    /\ output = <<>>
    /\ filled = 0
    /\ ki = <<>>
    /\ a = <<>>
    /\ counter = 0
    /\ rec = <<>>
    /\ ret = "none"
    /\ oracle = <<>>
    /\ results = <<>>

Next ==
    \/ DeriveEnter
    \/ DeriveSeed
    \/ DeriveRound
    \/ DeriveReturn
    \/ CallerNext

Spec == Init /\ [][Next]_vars

----------------------------------------------------------------------------
(* What the claims speak of, stated in the specification's terms: K and H *)
(* in bytes, the counter width in bytes.                                  *)

RBytes == inp.R \div 8

\* n = ceil(K*8 / H*8)
SpecN == IF inp.K % inp.H = 0 THEN inp.K \div inp.H ELSE inp.K \div inp.H + 1

\* m <= 2^(8*w) - 1.  m is below 2^31 here, so a field of 4 bytes holds it.
FitsCounter(m, w) == w >= 4 \/ m <= 2^(8 * w) - 1

Feasible == FitsCounter(SpecN, RBytes)

IsRound(e) == e.what = "round"
IsPipeline(e) == e.what = "A"

\* the round computations of the current call, in order
Rounds == SelectSeq(rec, IsRound)
\* the pipeline computations of the current call, in order
Pipelines == SelectSeq(rec, IsPipeline)

\* the low w bytes of i, most significant first
LowBytes(i, w) == [j \in 1..w |-> (i \div 256^(w - j)) % 256]

\* the big-endian 32-bit encoding of L = K*8
LField ==
    LET l == inp.K * 8 IN
    << (l \div 16777216) % 256, (l \div 65536) % 256, (l \div 256) % 256, l % 256 >>

\* label [|| 0x00] || context
LabelContext ==
    inp.label \o (IF inp.use_separator THEN <<0>> ELSE <<>>) \o inp.context

\* length of what precedes the counter field in round i's message
ChainLen(i) ==
    (IF Cur.mode = "Feedback" /\ (Cur.iv \/ i > 1) THEN inp.H ELSE 0)
    + (IF Cur.mode = "DoublePipeline" THEN inp.H ELSE 0)

Returned(r) == pc = "returned" /\ ret = r

----------------------------------------------------------------------------
\* C1: a feasible request (n <= 2^(8R) - 1) succeeds in every mode: the call
\* does not panic, after the n-th round no byte of the output is unfilled
\* (the assertion holds), and the K bytes returned are all bytes of round
\* outputs.
C1_FeasibleFillsOutput ==
    /\ ret # "PanicAssert"
    /\ (Feasible /\ pc = "loop" /\ counter > n) => inp.K - filled = 0
    /\ (Feasible /\ pc = "returned") =>
          /\ ret = "Ok"
          /\ Len(output) = inp.K
          /\ Len(Rounds) = SpecN
          /\ \A i \in 1..inp.K : output[i] >= 256

\* C1 on the builds where the size check itself does not panic (every build
\* but a 32-bit usize with overflow checks and R = 32): the same statement.
C1_FeasibleFillsOutputWhenCheckRuns ==
    ~(PowOverflows(inp.R) /\ inp.build.overflow_checks) => C1_FeasibleFillsOutput

\* C1: a feasible request that succeeds where the pow wraps (32-bit usize, no
\* overflow checks, R = 32), with a truncated last round.
C1_Witness ==
    /\ Returned("Ok")
    /\ Cur.mode = "DoublePipeline"
    /\ SpecN >= 2
    /\ inp.K % inp.H # 0
    /\ inp.R = 32 /\ inp.build.usize = 32

\* C2: an infeasible request (n > 2^(8R) - 1) returns InvalidRequestSize and
\* no MAC computation happens in the call: neither the initial pipeline value
\* nor a round is computed, and no output is returned.
C2_InfeasibleRejectedBeforePrf ==
    ~Feasible =>
        /\ rec = <<>>
        /\ oracle = <<>>
        /\ pc \in {"enter", "returned", "idle"}
        /\ pc = "returned" => ret = "Err"
        /\ \A c \in 1..Len(results) :
              /\ results[c].ret = "Err"
              /\ results[c].prfCalls = 0
              /\ results[c].output = <<>>

C2_Witness ==
    /\ Returned("Err")
    /\ inp.K = 256 /\ inp.H = 1 /\ RBytes = 1
    /\ Cur.mode = "Feedback"

\* C3: on success the derived key is the first K bytes of K_1 || ... || K_n:
\* the rounds before the last contribute all of their H bytes, in order, and
\* the last one its first K - (n-1)*H bytes.
C3_OutputIsTruncatedConcatenation ==
    Returned("Ok") =>
        LET rs == Rounds
            ks == [i \in 1..Len(rs) |-> rs[i].out]
        IN
        /\ Len(ks) = SpecN
        /\ output = Take(Concat(ks), inp.K)
        /\ \A i \in 1..(SpecN - 1) :
              SubSeq(output, (i - 1) * inp.H + 1, i * inp.H) = ks[i]
        /\ SpecN >= 1 =>
              SubSeq(output, (SpecN - 1) * inp.H + 1, inp.K)
                  = Take(ks[SpecN], inp.K - (SpecN - 1) * inp.H)

C3_Witness ==
    /\ Returned("Ok")
    /\ Cur.mode = "Counter"
    /\ inp.K = 5 /\ inp.H = 2
    /\ inp.prf = "distinctBytes"

\* C4: with use_counter, round i's message holds, after the chaining terms,
\* the low R bytes of the big-endian encoding of i; every executed round has
\* i <= 2^(8R) - 1, so the bytes cut off are all 0.
C4_CounterFieldIsLowBytes ==
    inp.use_counter =>
        LET rs == Rounds IN
        \A k \in 1..Len(rs) :
            LET e == rs[k]
                i == e.counter
                off == ChainLen(i)
            IN /\ i = k
               /\ Len(e.msg) >= off + RBytes
               /\ SubSeq(e.msg, off + 1, off + RBytes) = LowBytes(i, RBytes)
               /\ FitsCounter(i, RBytes)
               /\ RBytes < 4 => i \div 256^RBytes = 0

C4_Witness ==
    /\ inp.use_counter
    /\ RBytes = 1
    /\ Cur.mode = "DoublePipeline"
    /\ LET rs == Rounds IN \E k \in 1..Len(rs) : rs[k].counter = 255

----------------------------------------------------------------------------
(* The finished calls, by their place in Calls *)

CallOf(mode, iv, altA) ==
    CHOOSE c \in 1..NCalls : Calls[c] = [mode |-> mode, iv |-> iv, altA |-> altA]

CounterCall == CallOf("Counter", FALSE, FALSE)
FeedbackCall == CallOf("Feedback", FALSE, FALSE)
DoublePipelineCall == CallOf("DoublePipeline", FALSE, FALSE)

Done(c) == Len(results) >= c /\ results[c].ret = "Ok"

\* the calls of a pair agree in everything but the values a takes
AltPairs ==
    {p \in (1..NCalls) \X (1..NCalls) :
        ~Calls[p[1]].altA /\ Calls[p[2]] = [Calls[p[1]] EXCEPT !.altA = TRUE]}

\* C5 as stated: with more than one round, the outputs of Counter, Feedback
\* without IV and Double-Pipeline are pairwise different for a collision-free
\* MAC.
C5_OutputsPairwiseDifferent ==
    (SpecN > 1 /\ Done(CounterCall) /\ Done(FeedbackCall) /\ Done(DoublePipelineCall)) =>
        /\ results[CounterCall].output # results[FeedbackCall].output
        /\ results[CounterCall].output # results[DoublePipelineCall].output
        /\ results[FeedbackCall].output # results[DoublePipelineCall].output

\* C5 as amended: with more than one round Double-Pipeline differs from both
\* other modes (round 1 already differs and is returned whole); Counter and
\* Feedback without IV share K_1 and differ once the output holds the whole
\* block of round 2, that is for K >= 2H.
C5_OutputsDifferOnWholeBlocks ==
    (SpecN > 1 /\ Done(CounterCall) /\ Done(FeedbackCall) /\ Done(DoublePipelineCall)) =>
        /\ results[CounterCall].output # results[DoublePipelineCall].output
        /\ results[FeedbackCall].output # results[DoublePipelineCall].output
        /\ Take(results[CounterCall].output, inp.H)
              = Take(results[FeedbackCall].output, inp.H)
        /\ inp.K >= 2 * inp.H =>
              results[CounterCall].output # results[FeedbackCall].output

C5_Witness ==
    /\ Done(CounterCall) /\ Done(FeedbackCall) /\ Done(DoublePipelineCall)
    /\ inp.prf = "distinctLastByte"
    /\ inp.H = 2 /\ inp.K = 4
    /\ results[CounterCall].output # results[FeedbackCall].output

\* C6: in Feedback mode round 1's message starts with the IV when there is
\* one and has no feedback term when there is none; from round 2 on the
\* feedback term is the output of the round before, with or without IV, and
\* the IV is not appended again.
C6_FeedbackTerm ==
    Cur.mode = "Feedback" =>
        LET rs == Rounds IN
        \A k \in 1..Len(rs) :
            LET rest == (IF inp.use_counter THEN LowBytes(k, RBytes) ELSE <<>>)
                        \o LabelContext
                        \o (IF inp.use_l THEN LField ELSE <<>>)
                m == rs[k].msg
            IN /\ (k = 1 /\ Cur.iv) => m = IvBytes(inp.H) \o rest
               /\ (k = 1 /\ ~Cur.iv) => m = rest
               /\ k >= 2 => /\ m = rs[k - 1].out \o rest
                            /\ Take(m, inp.H) # IvBytes(inp.H)

C6_Witness ==
    /\ Cur.mode = "Feedback" /\ Cur.iv /\ ~Cur.altA
    /\ Len(Rounds) >= 3
    /\ inp.use_counter

\* C7 as stated: a successful Counter or Feedback call of n rounds makes
\* n + 1 MAC computations.
C7_PrfCallsAreRoundsPlusOne ==
    (Returned("Ok") /\ Cur.mode \in {"Counter", "Feedback"}) =>
        Len(rec) = SpecN + 1

\* C7 as amended: such a call makes n computations for the rounds, one for
\* the initial pipeline value and one more pipeline computation in each round
\* after the first: 2n for n >= 1, and 1 for n = 0.
C7_PrfCallsAreTwicePerRound ==
    (Returned("Ok") /\ Cur.mode \in {"Counter", "Feedback"}) =>
        /\ Len(Rounds) = SpecN
        /\ Len(Pipelines) = (IF SpecN = 0 THEN 1 ELSE SpecN)
        /\ Len(rec) = (IF SpecN = 0 THEN 1 ELSE 2 * SpecN)

C7_Witness ==
    /\ Returned("Ok")
    /\ Cur.mode = "Counter"
    /\ SpecN = 3
    /\ Len(rec) = 6

\* C8: in Counter and Feedback mode the pipeline value does not show in the
\* output: two calls that agree in everything but the values of a return the
\* same result.
C8_PipelineValueUnobservable ==
    \A p \in AltPairs :
        Len(results) >= p[2] =>
            /\ results[p[1]].ret = results[p[2]].ret
            /\ results[p[1]].output = results[p[2]].output

C8_Witness ==
    /\ Len(results) = NCalls
    /\ SpecN >= 2
    /\ \A p \in AltPairs :
          /\ results[p[1]].ret = "Ok"
          /\ results[p[1]].aLast # results[p[2]].aLast
          /\ results[p[1]].output = results[p[2]].output

\* C9: the initial pipeline value is the MAC of label [|| 0x00] || context,
\* without the length field whatever use_l is; every round message ends with
\* the fixed input followed by the 32-bit big-endian L exactly when use_l is
\* set; from round 2 on the pipeline value is the MAC of the previous
\* pipeline value alone.
C9_LengthFieldOnlyInRounds ==
    /\ rec # <<>> => (rec[1].what = "A" /\ rec[1].msg = LabelContext)
    /\ LET rs == Rounds IN
       \A k \in 1..Len(rs) :
          LET m == rs[k].msg
              pre == ChainLen(k) + (IF inp.use_counter THEN RBytes ELSE 0)
          IN /\ Len(m) = pre + Len(LabelContext) + (IF inp.use_l THEN 4 ELSE 0)
             /\ SubSeq(m, pre + 1, Len(m))
                   = LabelContext \o (IF inp.use_l THEN LField ELSE <<>>)
    /\ LET ps == Pipelines IN
       \A k \in 2..Len(ps) :
          /\ ps[k].counter = k
          /\ ps[k].msg = Perturb(ps[k - 1].out)
          /\ Len(ps[k].msg) = inp.H

C9_Witness ==
    /\ inp.use_l /\ inp.use_separator
    /\ inp.label # <<>> /\ inp.context # <<>>
    /\ Cur.mode = "DoublePipeline"
    /\ Len(Pipelines) >= 2
    /\ Len(Rounds) >= 2

\* C10: in Counter mode without the counter field every round has the same
\* message (label [|| 0x00] || context [|| L]), hence the same output, and the
\* derived key is K_1 repeated and cut to K bytes; and for one round Counter
\* and Feedback without IV return the same output.
C10_CounterlessRoundsRepeat ==
    /\ (Cur.mode = "Counter" /\ ~inp.use_counter) =>
          LET rs == Rounds IN
          /\ \A k \in 1..Len(rs) :
                /\ rs[k].msg = LabelContext \o (IF inp.use_l THEN LField ELSE <<>>)
                /\ rs[k].out = rs[1].out
          /\ Returned("Ok") =>
                \A i \in 1..inp.K : output[i] = rs[1].out[((i - 1) % inp.H) + 1]
    /\ (SpecN = 1 /\ Done(CounterCall) /\ Done(FeedbackCall)) =>
          results[CounterCall].output = results[FeedbackCall].output

C10_Witness ==
    /\ Returned("Ok")
    /\ Cur.mode = "Counter" /\ ~Cur.altA
    /\ ~inp.use_counter
    /\ inp.K = 5 /\ inp.H = 2

====
